---- MODULE Spec2Model ----
(***************************************************************************)
(* poprunning-tracker (server.js): an express server over one sqlite       *)
(* database.  The store is the three tables links, click_events and        *)
(* conversions; every handler issues its statements to the database and    *)
(* continues in their callbacks, so the statements of concurrent requests  *)
(* interleave.  A handler's first statement runs at some moment after the  *)
(* request arrived, and nothing of the request is visible before it: an    *)
(* action takes a request from its arrival to the callback of its first    *)
(* statement.  The writes that callback issues are in reqs until they have  *)
(* run; res is the response the latest step sent, and reqBody holds the    *)
(* body of the webhook it answers, if it answers one on arrival.  now is    *)
(* the database's clock (UTC) and tzOffset what the process's local time   *)
(* is ahead of it.                                                         *)
(***************************************************************************)
EXTENDS Integers, Sequences, FiniteSets, Bags, TLC

VARIABLES links, click_events, conversions, now, tzOffset, reqs, res, reqBody,
          redirects, lost

vars == <<links, click_events, conversions, now, tzOffset, reqs, res, reqBody,
          redirects, lost>>
store == <<links, click_events, conversions>>

\* ---------------------------------------------------------------- bounds
\* the visits and the webhooks that get to write in a run, and the two
\* together; the requests with writes in flight at a time, the clock's last
\* tick, and the writes without a callback that fail in a run
MaxVisits == 2
MaxWebhooks == 2
MaxWrites == 3
MaxInFlight == 2
MaxTime == 2
MaxLost == 1

\* ---------------------------------------------------------------- values
\* null and undefined, and the NULL of a DATETIME column
NULL == "NULL"
NoTime == 0

ContactIds == {"42", "7"}
AgentTypes == {"post_call"}
Urls == {"https://x.test/a"}
Codes == {"a1b2c3d4", "e5f6a7b8"}

\* what the fields of a request body can hold: NULL is an absent field, "" an
\* empty one
ContactIdIn == {NULL, ""} \cup ContactIds
AgentTypeIn == {""} \cup AgentTypes
OriginalUrlIn == {NULL} \cup Urls

\* the bodies of a webhook: contactId absent, empty or given, or the contact
\* under the name contact_id
WebhookBodies ==
  {[contactId |-> c, contact_id |-> NULL] : c \in ContactIdIn}
    \cup {[contactId |-> NULL, contact_id |-> c] : c \in ContactIds}

\* JavaScript's !v for the values above
Falsy(v) == v = NULL \/ v = ""

\* ---------------------------------------------------------------- rows
LinkRow(trackingId, contactId, agentType, originalUrl, t) ==
  [tracking_id |-> trackingId, contact_id |-> contactId, agent_type |-> agentType,
   original_url |-> originalUrl, created_at |-> t,
   clicked |-> FALSE, clicked_at |-> NoTime,
   converted |-> FALSE, converted_at |-> NoTime]

ClickRow(trackingId, t) == [tracking_id |-> trackingId, clicked_at |-> t]

ConversionRow(contactId, trackingId) ==
  [contact_id |-> contactId, tracking_id |-> trackingId]

Idx(s) == 1..Len(s)

\* SELECT ... FROM links WHERE tracking_id = ?
LinksWithCode(ls, code) == {i \in Idx(ls) : ls[i].tracking_id = code}

\* ---------------------------------------------------------------- requests
\* a request whose handler has issued writes that have not yet run: the
\* variables its callbacks hold, and whether its INSERT and its UPDATE are
\* issued and still to run
Request(kind, contactId, trackingId, ins, upd) ==
  [kind |-> kind, contactId |-> contactId, trackingId |-> trackingId,
   ins |-> ins, upd |-> upd]

\* the response sent by the latest step (status 0: the step sent none):
\* the handler that sent it, the status, and the trackingId of a JSON body or
\* the Location of a redirect
Response(kind, status, trackingId, location) ==
  [kind |-> kind, status |-> status, trackingId |-> trackingId, location |-> location]

NoResponse == Response("none", 0, NULL, NULL)

InFlight == BagToSet(reqs)

Pending(q) == q.ins \/ q.upd

\* a new request q, in flight if it has issued a write
Issue(q) == IF Pending(q) THEN reqs (+) SetToBag({q}) ELSE reqs

\* request r has become q; a request with no statement left is gone
Become(r, q) == (reqs (-) SetToBag({r})) (+) (IF Pending(q) THEN SetToBag({q}) ELSE EmptyBag)

\* the number of requests in flight among those of S
InFlightCount(S) ==
  BagCardinality([r \in S \cap InFlight |-> reqs[r]])

\* a store failure (busy database, I/O error) may hit any statement: one
\* with a callback passes it err, a write without a callback is lost
MayFail == TRUE
MayLose == lost < MaxLost

\* the rows a handler has written or is about to write
Written(table, kind) ==
  Len(table) + InFlightCount({q \in InFlight : q.kind = kind /\ q.ins})

MayAccept(table, kind, max) ==
  /\ BagCardinality(reqs) < MaxInFlight /\ Written(table, kind) < max
  /\ Written(click_events, "visit") + Written(conversions, "webhook") < MaxWrites

Init ==
  /\ links = <<>>
  /\ click_events = <<>>
  /\ conversions = <<>>
  /\ now = 1
  /\ tzOffset = 0
  /\ reqs = EmptyBag
  /\ res = NoResponse
  /\ reqBody = {}
  /\ redirects = [k \in Codes |-> 0]
  /\ lost = 0

\* the event loop runs one callback at a time: the response a callback sends
\* is written out before the next callback runs
Idle == res = NoResponse

Sent ==
  /\ ~Idle
  /\ res' = NoResponse
  /\ reqBody' = {}
  /\ UNCHANGED <<links, click_events, conversions, now, reqs, redirects, lost, tzOffset>>

\* CURRENT_TIMESTAMP advances
Tick ==
  /\ Idle
  /\ now < MaxTime
  /\ now' = now + 1
  /\ res' = NoResponse
  /\ reqBody' = {}
  /\ UNCHANGED <<links, click_events, conversions, reqs, redirects, lost, tzOffset>>

\* ---------------------------------------------------------------- register
\* mutant: the test forgets originalUrl
MissingRequiredNoUrl(contactId, agentType, originalUrl) ==
  Falsy(contactId) \/ Falsy(agentType)

\* if (!contactId || !agentType || !originalUrl)
MissingRequired(contactId, agentType, originalUrl) ==
  Falsy(contactId) \/ Falsy(agentType) \/ Falsy(originalUrl)

\* mutant: tracking_id is not declared UNIQUE
UniqueViolationUnenforced(ls, code) == FALSE

\* the UNIQUE constraint on links.tracking_id
UniqueViolation(ls, code) == LinksWithCode(ls, code) # {}

\* mutant: INSERT OR REPLACE, the row of a code that is taken is written over
InsertLinkOrReplace(code, contactId, agentType, originalUrl) ==
  \/ /\ links' = IF UniqueViolation(links, code)
                  THEN [i \in Idx(links) |->
                          IF links[i].tracking_id = code
                          THEN LinkRow(code, contactId, agentType, originalUrl, now)
                          ELSE links[i]]
                  ELSE Append(links, LinkRow(code, contactId, agentType, originalUrl, now))
     /\ res' = Response("register", 200, code, NULL)
  \/ /\ MayFail
     /\ res' = Response("register", 500, NULL, NULL)
     /\ UNCHANGED links

\* INSERT INTO links and its callback: the row is appended and 200 sent, or
\* the statement fails, as it does on a code that is taken, and 500 is sent
InsertLink(code, contactId, agentType, originalUrl) ==
  \/ /\ ~UniqueViolation(links, code)
     /\ links' = Append(links, LinkRow(code, contactId, agentType, originalUrl, now))
     /\ res' = Response("register", 200, code, NULL)
  \/ /\ UniqueViolation(links, code) \/ MayFail
     /\ res' = Response("register", 500, NULL, NULL)
     /\ UNCHANGED links

\* app.post('/api/register-link'): code is what uuidv4().substring(0, 8) gives
RegisterLink(contactId, agentType, originalUrl) ==
  /\ Idle
  /\ IF MissingRequired(contactId, agentType, originalUrl)
     THEN /\ res' = Response("register", 400, NULL, NULL)
          /\ UNCHANGED links
     ELSE \E code \in Codes : InsertLink(code, contactId, agentType, originalUrl)
  /\ UNCHANGED <<click_events, conversions, now, reqs, reqBody, redirects, lost, tzOffset>>

\* ---------------------------------------------------------------- visit
\* if (!row.clicked)
FirstClick(row) == ~row.clicked

\* mutant: the click is logged only with the first click
VisitWritesFirstOnly(trackingId, row) ==
  Request("visit", NULL, trackingId, FirstClick(row), FirstClick(row))

\* the writes the SELECT's callback issues for the row it found
VisitWrites(trackingId, row) ==
  Request("visit", NULL, trackingId, TRUE, FirstClick(row))

\* if (err || !row)
NotFound(ls, trackingId) == LinksWithCode(ls, trackingId) = {}

\* mutant: the click is logged before the row is tested
VisitMissLogged(trackingId) ==
  /\ res' = Response("visit", 404, NULL, NULL)
  /\ reqs' = Issue(Request("visit", NULL, trackingId, TRUE, FALSE))
  /\ UNCHANGED redirects

\* return res.status(404).send('Link not found')
VisitMiss(trackingId) ==
  /\ res' = Response("visit", 404, NULL, NULL)
  /\ UNCHANGED <<reqs, redirects>>

\* app.get('/t/:trackingId'), to the end of its SELECT's callback: 404, or
\* the two writes are issued and the redirect is sent
VisitLink(trackingId) ==
  /\ Idle
  /\ \/ /\ NotFound(links, trackingId) \/ MayFail
        /\ VisitMiss(trackingId)
     \/ /\ MayAccept(click_events, "visit", MaxVisits)
        /\ \E i \in LinksWithCode(links, trackingId) :
             /\ reqs' = Issue(VisitWrites(trackingId, links[i]))
             /\ res' = Response("visit", 302, NULL, links[i].original_url)
        /\ redirects' = [redirects EXCEPT ![trackingId] = @ + 1]
  /\ UNCHANGED <<links, click_events, conversions, now, reqBody, lost, tzOffset>>

\* mutant: the INSERT has a callback that answers 500 on err
VisitInsertClickReported(r) ==
  /\ Idle
  /\ r.kind = "visit" /\ r.ins
  /\ \/ /\ click_events' = Append(click_events, ClickRow(r.trackingId, now))
        /\ reqs' = Become(r, [r EXCEPT !.ins = FALSE])
        /\ res' = NoResponse
        /\ UNCHANGED lost
     \/ /\ MayLose
        /\ lost' = lost + 1
        /\ reqs' = Become(r, [r EXCEPT !.ins = FALSE])
        /\ res' = Response("visit", 500, NULL, NULL)
        /\ UNCHANGED click_events
  /\ UNCHANGED <<links, conversions, now, reqBody, redirects, tzOffset>>

\* INSERT INTO click_events (no callback)
VisitInsertClick(r) ==
  /\ Idle
  /\ r.kind = "visit" /\ r.ins
  /\ \/ /\ click_events' = Append(click_events, ClickRow(r.trackingId, now))
        /\ reqs' = Become(r, [r EXCEPT !.ins = FALSE])
        /\ UNCHANGED lost
     \/ /\ MayLose
        /\ lost' = lost + 1
        /\ reqs' = Become(r, [r EXCEPT !.ins = FALSE])
        /\ UNCHANGED click_events
  /\ res' = NoResponse
  /\ UNCHANGED <<links, conversions, now, reqBody, redirects, tzOffset>>

\* UPDATE links SET clicked = 1, clicked_at = CURRENT_TIMESTAMP WHERE tracking_id = ?
SetClicked(ls, code, t) ==
  [i \in Idx(ls) |-> IF ls[i].tracking_id = code
                     THEN [ls[i] EXCEPT !.clicked = TRUE, !.clicked_at = t]
                     ELSE ls[i]]

\* the UPDATE of the first click (no callback)
VisitUpdateClicked(r) ==
  /\ Idle
  /\ r.kind = "visit" /\ r.upd
  /\ \/ /\ links' = SetClicked(links, r.trackingId, now)
        /\ reqs' = Become(r, [r EXCEPT !.upd = FALSE])
        /\ UNCHANGED lost
     \/ /\ MayLose
        /\ lost' = lost + 1
        /\ reqs' = Become(r, [r EXCEPT !.upd = FALSE])
        /\ UNCHANGED links
  /\ res' = NoResponse
  /\ UNCHANGED <<click_events, conversions, now, reqBody, redirects, tzOffset>>

\* ---------------------------------------------------------------- webhook
\* mutant: the contact is also taken from the field contact_id
ExtractContactIdEitherName(body) ==
  IF Falsy(body.contactId) THEN body.contact_id ELSE body.contactId

\* const { contactId, appointmentId } = req.body
ExtractContactId(body) == body.contactId

\* mutant: the SELECT does not test clicked
ClickedOfAnyLink(ls, contactId) ==
  {i \in Idx(ls) : ls[i].contact_id = contactId}

\* mutant: a link already converted is not attributed again
ClickedOfUnconverted(ls, contactId) ==
  {i \in Idx(ls) : ls[i].contact_id = contactId /\ ls[i].clicked /\ ~ls[i].converted}

\* WHERE contact_id = ? AND clicked = 1
ClickedOf(ls, contactId) ==
  {i \in Idx(ls) : ls[i].contact_id = contactId /\ ls[i].clicked}

\* mutant: the SELECT has no ORDER BY
MostRecentClickedAny(ls, contactId) == ClickedOf(ls, contactId)

\* ORDER BY clicked_at DESC LIMIT 1: the rows that may come first
MostRecentClicked(ls, contactId) ==
  {i \in ClickedOf(ls, contactId) :
     \A j \in ClickedOf(ls, contactId) : ls[j].clicked_at <= ls[i].clicked_at}

\* mutant: the SELECT does not test contact_id
AttributedOfAnyContact(ls, contactId) ==
  IF \A i \in Idx(ls) : ~ls[i].clicked THEN {NULL}
  ELSE {ls[i].tracking_id : i \in {j \in Idx(ls) : ls[j].clicked}}

\* const trackingId = row ? row.tracking_id : null
Attributed(ls, contactId) ==
  IF MostRecentClicked(ls, contactId) = {} THEN {NULL}
  ELSE {ls[i].tracking_id : i \in MostRecentClicked(ls, contactId)}

\* mutant: contactId is not tested
MissingContactIdNever(contactId) == FALSE

\* if (!contactId)
MissingContactId(contactId) == Falsy(contactId)

\* return res.status(400).json({ error: 'Missing contactId' })
WebhookRejected == Response("webhook", 400, NULL, NULL)

\* mutant: err is logged and the caller is told 200
WebhookFailedSwallowed == Response("webhook", 200, NULL, NULL)

\* if (err) return res.status(500).json(...), of the SELECT and of the INSERT
WebhookFailed == Response("webhook", 500, NULL, NULL)

\* app.post('/webhook/appointment'), to the end of its SELECT's callback:
\* 400, 500, or the INSERT INTO conversions is issued
WebhookAppointment(body) ==
  LET contactId == ExtractContactId(body) IN
  /\ Idle
  /\ IF MissingContactId(contactId)
     THEN /\ res' = WebhookRejected
          /\ reqBody' = {body}
          /\ UNCHANGED reqs
     ELSE \/ /\ MayFail
             /\ res' = WebhookFailed
             /\ reqBody' = {body}
             /\ UNCHANGED reqs
          \/ /\ MayAccept(conversions, "webhook", MaxWebhooks)
             /\ \E t \in Attributed(links, contactId) :
                  reqs' = Issue(Request("webhook", contactId, t, TRUE, FALSE))
             /\ res' = NoResponse
             /\ reqBody' = {}
  /\ UNCHANGED <<links, click_events, conversions, now, redirects, lost, tzOffset>>

\* if (trackingId)
WebhookWrites(r) ==
  [r EXCEPT !.ins = FALSE, !.upd = ~Falsy(r.trackingId)]

\* mutant: one Conversion row a contact, written over by the next webhook
WebhookInsertUpsert(r) ==
  /\ Idle
  /\ r.kind = "webhook" /\ r.ins
  /\ \/ /\ MayFail
        /\ reqs' = Become(r, [r EXCEPT !.ins = FALSE])
        /\ res' = WebhookFailed
        /\ UNCHANGED conversions
     \/ /\ conversions' =
             IF \E n \in Idx(conversions) : conversions[n].contact_id = r.contactId
             THEN [n \in Idx(conversions) |->
                     IF conversions[n].contact_id = r.contactId
                     THEN ConversionRow(r.contactId, r.trackingId)
                     ELSE conversions[n]]
             ELSE Append(conversions, ConversionRow(r.contactId, r.trackingId))
        /\ reqs' = Become(r, WebhookWrites(r))
        /\ res' = Response("webhook", 200, r.trackingId, NULL)
  /\ UNCHANGED <<links, click_events, now, reqBody, redirects, lost, tzOffset>>

\* the INSERT INTO conversions and its callback: 500, or the UPDATE is issued
\* (if a link was found) and 200 is sent
WebhookInsert(r) ==
  /\ Idle
  /\ r.kind = "webhook" /\ r.ins
  /\ \/ /\ MayFail
        /\ reqs' = Become(r, [r EXCEPT !.ins = FALSE])
        /\ res' = WebhookFailed
        /\ UNCHANGED conversions
     \/ /\ conversions' = Append(conversions, ConversionRow(r.contactId, r.trackingId))
        /\ reqs' = Become(r, WebhookWrites(r))
        /\ res' = Response("webhook", 200, r.trackingId, NULL)
  /\ UNCHANGED <<links, click_events, now, reqBody, redirects, lost, tzOffset>>

\* mutant: the UPDATE is WHERE contact_id is the contact of the link
SetConvertedOfContact(ls, code, t) ==
  [i \in Idx(ls) |-> IF \E j \in LinksWithCode(ls, code) : ls[j].contact_id = ls[i].contact_id
                     THEN [ls[i] EXCEPT !.converted = TRUE, !.converted_at = t]
                     ELSE ls[i]]

\* UPDATE links SET converted = 1, converted_at = CURRENT_TIMESTAMP WHERE tracking_id = ?
SetConverted(ls, code, t) ==
  [i \in Idx(ls) |-> IF ls[i].tracking_id = code
                     THEN [ls[i] EXCEPT !.converted = TRUE, !.converted_at = t]
                     ELSE ls[i]]

\* the UPDATE of the attributed link (no callback)
WebhookUpdate(r) ==
  /\ Idle
  /\ r.kind = "webhook" /\ r.upd
  /\ \/ /\ links' = SetConverted(links, r.trackingId, now)
        /\ reqs' = Become(r, [r EXCEPT !.upd = FALSE])
        /\ UNCHANGED lost
     \/ /\ MayLose
        /\ lost' = lost + 1
        /\ reqs' = Become(r, [r EXCEPT !.upd = FALSE])
        /\ UNCHANGED links
  /\ res' = NoResponse
  /\ UNCHANGED <<click_events, conversions, now, reqBody, redirects, tzOffset>>

\* ---------------------------------------------------------------- system
Next ==
  \/ Sent
  \/ Tick
  \/ \E c \in ContactIdIn, a \in AgentTypeIn, u \in OriginalUrlIn :
       RegisterLink(c, a, u)
  \/ \E k \in Codes : VisitLink(k)
  \/ \E r \in InFlight : VisitInsertClick(r)
  \/ \E r \in InFlight : VisitUpdateClicked(r)
  \/ \E b \in WebhookBodies : WebhookAppointment(b)
  \/ \E r \in InFlight : WebhookInsert(r)
  \/ \E r \in InFlight : WebhookUpdate(r)

Spec == Init /\ [][Next]_vars

\* ================================================================ dashboard
\* The two read-only handlers, app.get('/api/stats') and
\* app.get('/api/link/:trackingId'), are run over stores the handlers above
\* can have left, drawn from bounded sets: StatsSpec and LinkSpec below.

\* ---------------------------------------------------------------- bounds
\* the clock counts ticks, TicksPerDay of them a day, up to MaxStatTime; local
\* time is up to MaxOffset ticks behind or ahead of UTC; a drawn store has up
\* to MaxStatLinks links; RecentLimit is the LIMIT 50 of recentActivity at the
\* scale of these stores
TicksPerDay == 2
MaxStatTime == 3
MaxOffset == 1
MaxStatLinks == 3
RecentLimit == 2

\* '-7 days' and '-30 days'
WeekDays == 7
MonthDays == 30

\* the NULL of SUM and AVG over no row
NoValue == -1

Offsets == (0 - MaxOffset)..MaxOffset
StatTimes == 0..MaxStatTime
StatCodes == <<"a1b2c3d4", "e5f6a7b8", "c9d0e1f2", "0a1b2c3d", "4e5f6a7b">>
SupportTypes == {"support_billing"}
StatAgentTypes == {"post_call"} \cup SupportTypes

\* req.query: NULL is an absent parameter
PeriodIn == {NULL, "today", "week", "month", "all", "year"}
AgentTypeQuery == {NULL, "all"} \cup StatAgentTypes

\* ---------------------------------------------------------------- dates
\* DATE(created_at): the day, in UTC, of a stored time
DateOf(t) == t \div TicksPerDay

\* DATE('now', '-N days', 'localtime'): the local day of the moment N days ago
LocalDateDaysAgo(days) == (now - days * TicksPerDay + tzOffset) \div TicksPerDay

\* const { period = 'today', agentType } = req.query
PeriodOf(period) == IF period = NULL THEN "today" ELSE period

\* ---------------------------------------------------------------- dateFilter
\* dateFilter is a conjunction of clauses: the one of the period and, after
\* it, the one of the agent type
DateClause(period) == [on |-> "created_at", is |-> period]
AgentClause(agentType) == [on |-> "agent_type", is |-> agentType]

\* if (agentType && agentType !== 'all')
AgentFiltered(agentType) == ~Falsy(agentType) /\ agentType # "all"

\* mutant: the default of the switch is the filter of today
DateFilterDefaultToday(period, agentType) ==
  <<DateClause(IF period \in {"today", "week", "month"} THEN period ELSE "today")>>
    \o (IF AgentFiltered(agentType) THEN <<AgentClause(agentType)>> ELSE <<>>)

\* switch(period) { ... } and dateFilter += ` AND agent_type = '${agentType}'`
DateFilter(period, agentType) ==
  <<DateClause(IF period \in {"today", "week", "month"} THEN period ELSE "1=1")>>
    \o (IF AgentFiltered(agentType) THEN <<AgentClause(agentType)>> ELSE <<>>)

\* String.replace(clause, ""): the first occurrence of clause is taken out
Replace(filter, clause) ==
  IF \E i \in Idx(filter) : filter[i] = clause
  THEN LET first == CHOOSE i \in Idx(filter) :
                      filter[i] = clause /\ \A j \in 1..(i - 1) : filter[j] # clause
       IN SubSeq(filter, 1, first - 1) \o SubSeq(filter, first + 1, Len(filter))
  ELSE filter

\* mutant: the agent clause stays in the filter of the byAgent query
ByAgentFilterKept(filter, agentType) == filter

\* dateFilter.replace(" AND agent_type = '" + agentType + "'", "")
ByAgentFilter(filter, agentType) == Replace(filter, AgentClause(agentType))

\* a row satisfies a clause, as SQLite evaluates it when the statement runs
Holds(clause, row) ==
  IF clause.on = "agent_type" THEN row.agent_type = clause.is
  ELSE CASE clause.is = "today" -> DateOf(row.created_at) = LocalDateDaysAgo(0)
         [] clause.is = "week"  -> DateOf(row.created_at) >= LocalDateDaysAgo(WeekDays)
         [] clause.is = "month" -> DateOf(row.created_at) >= LocalDateDaysAgo(MonthDays)
         [] OTHER -> TRUE

\* FROM links WHERE ${filter}
Where(filter) ==
  {i \in Idx(links) : \A c \in Idx(filter) : Holds(filter[c], links[i])}

\* ---------------------------------------------------------------- views
Count(S) == Cardinality(S)

\* ROUND(AVG(x) * 100, 1), in tenths of a percent: hits of n rows
Rate(hits, n) == IF n = 0 THEN NoValue ELSE (2000 * hits + n) \div (2 * n)

\* SUM(x) over the rows S
Sum(S, hits) == IF S = {} THEN NoValue ELSE hits

\* COUNT(*), SUM(clicked), SUM(converted), click_rate and conversion_rate of
\* the rows S of links
Figures(S) ==
  LET clicked == {i \in S : links[i].clicked}
      converted == {i \in S : links[i].converted}
  IN [total |-> Count(S),
      clicks |-> Sum(S, Count(clicked)),
      conversions |-> Sum(S, Count(converted)),
      click_rate |-> Rate(Count(clicked), Count(S)),
      conversion_rate |-> Rate(Count(clicked \cap converted), Count(clicked))]

\* the one-to-one sequences over a set
Orderings(S) ==
  {f \in [1..Cardinality(S) -> S] : \A i, j \in 1..Cardinality(S) : f[i] = f[j] => i = j}

\* ORDER BY CASE WHEN agent_type LIKE 'support_%' THEN 1
\*               WHEN agent_type = 'post_call' THEN 2 ELSE 3 END
AgentRank(agentType) ==
  IF agentType \in SupportTypes THEN 1 ELSE IF agentType = "post_call" THEN 2 ELSE 3

\* GROUP BY agent_type: the results the query may give for the rows S
GroupByAgent(S) ==
  LET types == {links[i].agent_type : i \in S}
      Group(a) == [agent_type |-> a,
                   figures |-> Figures({i \in S : links[i].agent_type = a})]
  IN {[n \in Idx(o) |-> Group(o[n])] :
        o \in {p \in Orderings(types) :
                 \A m, n \in Idx(p) : m < n => AgentRank(p[m]) <= AgentRank(p[n])}}

\* SELECT tracking_id, agent_type, ..., converted
Projection(row) ==
  [tracking_id |-> row.tracking_id, agent_type |-> row.agent_type,
   created_at |-> row.created_at, clicked |-> row.clicked,
   clicked_at |-> row.clicked_at, converted |-> row.converted]

\* mutant: the query has no LIMIT
FirstAll(s, n) == s

\* LIMIT n
First(s, n) == SubSeq(s, 1, IF Len(s) < n THEN Len(s) ELSE n)

\* ORDER BY created_at DESC LIMIT 50: the results the query may give for the
\* rows S
Recent(S) ==
  {First([n \in Idx(o) |-> Projection(links[o[n]])], RecentLimit) :
     o \in {p \in Orderings(S) :
              \A m, n \in Idx(p) :
                m < n => links[p[m]].created_at >= links[p[n]].created_at}}

\* ---------------------------------------------------------------- stats
\* a stats request between its statements: the filter built on arrival and
\* the results it holds
StatsRequest(period, agentType, filter, overview, byAgent, next) ==
  [kind |-> "stats", period |-> period, agentType |-> agentType, filter |-> filter,
   overview |-> overview, byAgent |-> byAgent, next |-> next]

StatsResponse(status, overview, byAgent, recentActivity, period) ==
  [kind |-> "stats", status |-> status, overview |-> overview, byAgent |-> byAgent,
   recentActivity |-> recentActivity, period |-> period]

\* res.status(500).json({ error: ... })
StatsFailed == StatsResponse(500, <<>>, <<>>, <<>>, NULL)

\* app.get('/api/stats'), to the end of the overview's callback: 500, or the
\* byAgent query is issued
GetStats(periodIn, agentType) ==
  LET period == PeriodOf(periodIn)
      filter == DateFilter(period, agentType)
  IN /\ Idle
     /\ reqs = EmptyBag
     /\ \/ /\ MayFail
           /\ res' = StatsFailed
           /\ UNCHANGED reqs
        \/ /\ reqs' = SetToBag({StatsRequest(period, agentType, filter,
                                             Figures(Where(filter)), <<>>, "byAgent")})
           /\ res' = NoResponse
     /\ UNCHANGED <<links, click_events, conversions, now, tzOffset, reqBody, redirects, lost>>

\* the byAgent query and its callback: 500, or the recentActivity query is
\* issued
StatsByAgent(r) ==
  /\ Idle
  /\ r.kind = "stats" /\ r.next = "byAgent"
  /\ \/ /\ MayFail
        /\ res' = StatsFailed
        /\ reqs' = EmptyBag
     \/ /\ \E groups \in GroupByAgent(Where(ByAgentFilter(r.filter, r.agentType))) :
             reqs' = SetToBag({[r EXCEPT !.byAgent = groups, !.next = "recentActivity"]})
        /\ res' = NoResponse
  /\ UNCHANGED <<links, click_events, conversions, now, tzOffset, reqBody, redirects, lost>>

\* the recentActivity query and its callback: 500, or the three results are
\* sent
StatsRecent(r) ==
  /\ Idle
  /\ r.kind = "stats" /\ r.next = "recentActivity"
  /\ \/ /\ MayFail
        /\ res' = StatsFailed
     \/ \E recent \in Recent(Where(r.filter)) :
          res' = StatsResponse(200, r.overview, r.byAgent, recent, r.period)
  /\ reqs' = EmptyBag
  /\ UNCHANGED <<links, click_events, conversions, now, tzOffset, reqBody, redirects, lost>>

\* time passes
Elapse ==
  /\ Idle
  /\ now < MaxStatTime
  /\ now' = now + 1
  /\ UNCHANGED <<links, click_events, conversions, tzOffset, reqs, res, reqBody, redirects, lost>>

\* ---------------------------------------------------------------- stores
\* the rows a registration, its first click and its conversion leave
StatLinkRows(code) ==
  {[LinkRow(code, c, a, u, t) EXCEPT !.clicked = f \in {"clicked", "converted"},
                                     !.clicked_at = IF f = "new" THEN NoTime ELSE t,
                                     !.converted = f = "converted",
                                     !.converted_at = IF f = "converted" THEN t ELSE NoTime] :
     c \in {"42"}, a \in StatAgentTypes, u \in Urls, t \in StatTimes,
     f \in {"new", "clicked", "converted"}}

\* the links tables of up to MaxStatLinks rows, in the order of registration
StatLinks ==
  UNION {{ls \in [1..n -> UNION {StatLinkRows(StatCodes[i]) : i \in 1..n}] :
            /\ \A i \in 1..n : ls[i].tracking_id = StatCodes[i]
            /\ \A i, j \in 1..n : i < j => ls[i].created_at <= ls[j].created_at} :
         n \in 0..MaxStatLinks}

InitStats ==
  /\ links \in StatLinks
  /\ click_events = <<>>
  /\ conversions = <<>>
  /\ now \in StatTimes
  /\ \A i \in Idx(links) : links[i].created_at <= now
  /\ tzOffset \in Offsets
  /\ reqs = EmptyBag
  /\ res = NoResponse
  /\ reqBody = {}
  /\ redirects = [k \in Codes |-> 0]
  /\ lost = 0

NextStats ==
  \/ Sent
  \/ Elapse
  \/ \E p \in PeriodIn, a \in AgentTypeQuery : GetStats(p, a)
  \/ \E r \in InFlight : StatsByAgent(r)
  \/ \E r \in InFlight : StatsRecent(r)

StatsSpec == InitStats /\ [][NextStats]_vars

\* ---------------------------------------------------------------- link
\* a link request between its two statements: the row its first SELECT gave
LinkRequest(trackingId, link) == [kind |-> "link", trackingId |-> trackingId, link |-> link]

LinkResponse(status, link, clicks) ==
  [kind |-> "link", status |-> status, link |-> link, clicks |-> clicks]

\* return res.status(404).json({ error: 'Link not found' })
LinkNotFound == LinkResponse(404, <<>>, <<>>)

\* mutant: the click events are given in the order of their insertion
ClicksOfAscending(trackingId) ==
  LET S == {i \in Idx(click_events) : click_events[i].tracking_id = trackingId}
  IN {[n \in Idx(o) |-> click_events[o[n]]] :
        o \in {p \in Orderings(S) : \A m, n \in Idx(p) : m < n => p[m] < p[n]}}

\* SELECT * FROM click_events WHERE tracking_id = ? ORDER BY clicked_at DESC:
\* the results the query may give
ClicksOf(trackingId) ==
  LET S == {i \in Idx(click_events) : click_events[i].tracking_id = trackingId}
  IN {[n \in Idx(o) |-> click_events[o[n]]] :
        o \in {p \in Orderings(S) :
                 \A m, n \in Idx(p) :
                   m < n => click_events[p[m]].clicked_at >= click_events[p[n]].clicked_at}}

\* app.get('/api/link/:trackingId'), to the end of its SELECT's callback: 404,
\* or the query of the click events is issued
GetLink(trackingId) ==
  /\ Idle
  /\ \A q \in InFlight : q.kind # "link"
  /\ \/ /\ NotFound(links, trackingId) \/ MayFail
        /\ res' = LinkNotFound
        /\ UNCHANGED reqs
     \/ /\ \E i \in LinksWithCode(links, trackingId) :
             reqs' = reqs (+) SetToBag({LinkRequest(trackingId, links[i])})
        /\ res' = NoResponse
  /\ UNCHANGED <<links, click_events, conversions, now, tzOffset, reqBody, redirects, lost>>

\* the query of the click events and its callback, which does not look at
\* err: clicks || []
LinkClicks(r) ==
  /\ Idle
  /\ r.kind = "link"
  /\ \/ /\ \E clicks \in ClicksOf(r.trackingId) : res' = LinkResponse(200, r.link, clicks)
        /\ UNCHANGED lost
     \/ /\ MayLose
        /\ lost' = lost + 1
        /\ res' = LinkResponse(200, r.link, <<>>)
  /\ reqs' = reqs (-) SetToBag({r})
  /\ UNCHANGED <<links, click_events, conversions, now, tzOffset, reqBody, redirects>>

\* the link requests among registrations and visits
NextLink ==
  \/ Sent
  \/ Tick
  \/ \E c \in ContactIds, a \in AgentTypes, u \in Urls : RegisterLink(c, a, u)
  \/ \E k \in Codes : VisitLink(k)
  \/ \E r \in InFlight : VisitInsertClick(r)
  \/ \E r \in InFlight : VisitUpdateClicked(r)
  \/ \E k \in Codes : GetLink(k)
  \/ \E r \in InFlight : LinkClicks(r)

LinkSpec == Init /\ [][NextLink]_vars

\* ================================================================ claims
\* what the claims speak of, stated apart from the handlers' own tests
Absent(v) == v \in {NULL, ""}

CodesOf(ls) == {ls[i].tracking_id : i \in Idx(ls)}

ClickRowsOf(code) == {i \in Idx(click_events) : click_events[i].tracking_id = code}

ClickInsertsOf(code) ==
  InFlightCount({q \in InFlight : q.kind = "visit" /\ q.trackingId = code /\ q.ins})

\* the clicked links of a contact
ClickedLinksOf(ls, contactId) ==
  {i \in Idx(ls) : ls[i].contact_id = contactId /\ ls[i].clicked = TRUE}

\* this step accepted a webhook for contactId and attributed it to code
Attributes(contactId, code) ==
  reqs' = reqs (+) SetToBag({Request("webhook", contactId, code, TRUE, FALSE)})

\* ---------------------------------------------------------------- C1
\* C1: no two Link rows share a tracking code, and the code a successful
\* register-link call returns is the code of the row it appended and of no
\* Link that existed before the call.
C1_UniqueTrackingCode ==
  /\ \A i, j \in Idx(links) : links[i].tracking_id = links[j].tracking_id => i = j
  /\ (res.kind = "register" /\ res.status = 200) =>
       /\ links # <<>>
       /\ links[Len(links)].tracking_id = res.trackingId
       /\ res.trackingId \notin CodesOf(SubSeq(links, 1, Len(links) - 1))

\* every code is taken by a registered link and one more registration, whose
\* code must repeat an earlier one, was refused
C1_Witness ==
  /\ CodesOf(links) = Codes
  /\ res.kind = "register" /\ res.status = 500

\* ---------------------------------------------------------------- C2
\* C2: a register-link request in which contactId, agentType or originalUrl is
\* absent or empty is answered 400 and writes nothing: no row is added or
\* changed and no write is issued; no Link row ever lacks one of the three.
C2_MissingFieldRejected ==
  [][/\ \A c \in ContactIdIn, a \in AgentTypeIn, u \in OriginalUrlIn :
          (RegisterLink(c, a, u) /\ (Absent(c) \/ Absent(a) \/ Absent(u)))
            => /\ res' = Response("register", 400, NULL, NULL)
               /\ UNCHANGED <<store, reqs>>
     /\ \A i \in Idx(links') :
          ~Absent(links'[i].contact_id) /\ ~Absent(links'[i].agent_type)
            /\ ~Absent(links'[i].original_url)]_vars

\* a registration was answered 400
C2_Witness == res.kind = "register" /\ res.status = 400

\* ---------------------------------------------------------------- C3
\* C3: once a Link's clicked_at has been stamped, no later step changes it,
\* under every interleaving of the visits' lookups, inserts and updates.
C3_ClickedAtStable ==
  [][\A i \in Idx(links) :
       links[i].clicked => links'[i].clicked_at = links[i].clicked_at]_vars

\* ---------------------------------------------------------------- C4
\* C4: every visit answered with the redirect appends exactly one ClickEvent
\* row for its code, clicked before or not: the rows of a code, with the
\* inserts still to run, are as many as the redirects sent for it, less the
\* inserts that failed; with no failure and no insert left, n visits have
\* left n rows.
C4_OneClickEventPerVisit ==
  \A k \in Codes :
    /\ Cardinality(ClickRowsOf(k)) + ClickInsertsOf(k) <= redirects[k]
    /\ redirects[k] <= Cardinality(ClickRowsOf(k)) + ClickInsertsOf(k) + lost
    /\ (lost = 0 /\ ClickInsertsOf(k) = 0) => Cardinality(ClickRowsOf(k)) = redirects[k]

\* two visits to one code are over, the second of a link already clicked,
\* and nothing failed: two rows
C4_Witness ==
  \E k \in Codes :
    /\ redirects[k] = 2 /\ lost = 0 /\ reqs = EmptyBag
    /\ Cardinality(ClickRowsOf(k)) = 2
    /\ \E i \in Idx(links) : links[i].tracking_id = k /\ links[i].clicked
    /\ \E i \in ClickRowsOf(k) : \E j \in Idx(links) :
         links[j].tracking_id = k /\ links[j].clicked_at < click_events[i].clicked_at

\* ---------------------------------------------------------------- C5
\* C5: a visit to a tracking code that no Link has is answered 404 and writes
\* nothing: no ClickEvent is appended or issued and no Link is modified.
C5_UnknownCodeNotFound ==
  [][\A k \in Codes :
       (VisitLink(k) /\ k \notin CodesOf(links))
         => /\ res' = Response("visit", 404, NULL, NULL)
            /\ UNCHANGED <<store, reqs>>]_vars

\* a visit was answered 404 while the code it asked for had no Link
C5_Witness ==
  /\ res.kind = "visit" /\ res.status = 404
  /\ CodesOf(links) # Codes
  /\ click_events = <<>>

\* ---------------------------------------------------------------- C6
\* the link of code has been marked converted, or the UPDATE that marks it is
\* still to run, or a write without a callback has failed
ConvertedOrPending(ls, inFlight, nLost, code) ==
  \/ \E i \in Idx(ls) :
       ls[i].tracking_id = code /\ ls[i].converted /\ ls[i].converted_at # NoTime
  \/ \E q \in inFlight : q.kind = "webhook" /\ q.trackingId = code /\ q.upd
  \/ nLost > 0

\* C6: a webhook for a contact that has a clicked Link is attributed to a
\* clicked Link of that contact with the latest clicked_at; the Conversion row
\* inserted carries that code, never the code of another contact's Link or of
\* an unclicked one; and the UPDATE issued with the row marks that Link
\* converted and stamps converted_at.
C6_AttributedToLatestClicked ==
  [][/\ \A b \in WebhookBodies, t \in Codes \cup {NULL} :
          (/\ WebhookAppointment(b)
           /\ ~Absent(b.contactId)
           /\ Attributes(b.contactId, t)
           /\ ClickedLinksOf(links, b.contactId) # {})
            => \E i \in ClickedLinksOf(links, b.contactId) :
                 /\ links[i].tracking_id = t
                 /\ \A j \in ClickedLinksOf(links, b.contactId) :
                      links[j].clicked_at <= links[i].clicked_at
     /\ \A r \in InFlight :
          (WebhookInsert(r) /\ conversions' # conversions)
            => /\ conversions' = Append(conversions,
                                   [contact_id |-> r.contactId, tracking_id |-> r.trackingId])
               /\ links' = links
     /\ \A r \in InFlight :
          (WebhookUpdate(r) /\ lost' = lost)
            => \A i \in Idx(links) :
                 links[i].tracking_id = r.trackingId
                   => /\ links'[i].converted /\ links'[i].converted_at = now
                      /\ links'[i].contact_id = r.contactId /\ links'[i].clicked
     /\ \A n \in Idx(conversions') :
          conversions'[n].tracking_id # NULL
            => /\ \E i \in ClickedLinksOf(links', conversions'[n].contact_id) :
                    links'[i].tracking_id = conversions'[n].tracking_id
               /\ ConvertedOrPending(links', InFlight', lost',
                                     conversions'[n].tracking_id)]_vars

\* a contact has clicked two links at different times; the webhook's row
\* carries the code of the later one, and that one alone is converted
C6_Witness ==
  \E i, j \in Idx(links) :
    /\ links[i].contact_id = links[j].contact_id
    /\ links[i].clicked /\ links[j].clicked
    /\ links[i].clicked_at < links[j].clicked_at
    /\ conversions = <<ConversionRow(links[j].contact_id, links[j].tracking_id)>>
    /\ links[j].converted /\ links[j].converted_at # NoTime
    /\ ~links[i].converted

\* ---------------------------------------------------------------- C7
\* C7: a webhook for a contact that has no clicked Link is attributed to no
\* Link; its INSERT appends exactly one Conversion row, with a null tracking
\* code, no UPDATE follows it and no Link row is modified.
C7_NoClickedLinkNullCode ==
  [][/\ \A b \in WebhookBodies, t \in Codes \cup {NULL} :
          (/\ WebhookAppointment(b)
           /\ ~Absent(b.contactId)
           /\ Attributes(b.contactId, t)
           /\ ClickedLinksOf(links, b.contactId) = {})
            => t = NULL /\ UNCHANGED store
     /\ \A r \in InFlight :
          (WebhookInsert(r) /\ r.trackingId = NULL /\ res'.status = 200)
            => /\ conversions' = Append(conversions,
                                   [contact_id |-> r.contactId, tracking_id |-> NULL])
               /\ links' = links
               /\ reqs' = reqs (-) SetToBag({r})
               /\ res'.trackingId = NULL
     /\ \A r \in InFlight : WebhookUpdate(r) => r.trackingId # NULL]_vars

\* a contact's only link is unclicked, and the webhook for the contact has
\* been answered 200 with its one row, of a null code
C7_Witness ==
  /\ res = Response("webhook", 200, NULL, NULL)
  /\ \E c \in ContactIds :
       /\ conversions = <<ConversionRow(c, NULL)>>
       /\ \E i \in Idx(links) : links[i].contact_id = c
       /\ ClickedLinksOf(links, c) = {}
  /\ reqs = EmptyBag
  /\ \A i \in Idx(links) : ~links[i].converted

\* ---------------------------------------------------------------- C8
\* a webhook body that names no contact, under either name
NoContact(b) == Absent(b.contactId) /\ Absent(b.contact_id)

UnderContact_id(b) == b.contactId = NULL /\ b.contact_id \in ContactIds

C11_RedirectRegardlessOfWrites ==
  [][/\ \A k \in Codes :
          (VisitLink(k) /\ res'.status # 404)
            => /\ \E i \in LinksWithCode(links, k) :
                    res' = Response("visit", 302, NULL, links[i].original_url)
               /\ redirects'[k] = redirects[k] + 1
     /\ \A r \in InFlight :
          (VisitInsertClick(r) \/ VisitUpdateClicked(r))
            => res' = NoResponse /\ redirects' = redirects]_vars

\* a visit has been redirected and a write of it has failed: its click was
\* not logged or its link was not marked clicked
C11_Witness ==
  \E k \in Codes :
    /\ redirects[k] = 1 /\ lost = 1 /\ reqs = EmptyBag
    /\ \A j \in Codes : j # k => redirects[j] = 0
    /\ \/ ClickRowsOf(k) = {}
       \/ \E i \in LinksWithCode(links, k) : ~links[i].clicked

\* ---------------------------------------------------------------- C12
\* the Conversion rows of a tracking code
ConversionRowsOf(code) == {n \in Idx(conversions) : conversions[n].tracking_id = code}

\* C12: a webhook for a contact whose clicked Links are all converted already
\* is attributed as any other: unless the store fails it is attributed to a
\* clicked Link of the contact; its INSERT appends a further Conversion row
\* with the code of the rows before it and is answered 200; its UPDATE leaves
\* converted true and stamps converted_at anew.
C12_DoubleConversionPermitted ==
  [][/\ \A b \in WebhookBodies :
          (/\ WebhookAppointment(b)
           /\ b.contactId \in ContactIds
           /\ ClickedLinksOf(links, b.contactId) # {}
           /\ \A i \in ClickedLinksOf(links, b.contactId) : links[i].converted
           /\ res'.status # 500)
            => \E i \in ClickedLinksOf(links, b.contactId) :
                 Attributes(b.contactId, links[i].tracking_id)
     /\ \A r \in InFlight :
          (/\ WebhookInsert(r)
           /\ ConversionRowsOf(r.trackingId) # {}
           /\ res'.status # 500)
            => /\ conversions' = Append(conversions,
                                   [contact_id |-> r.contactId, tracking_id |-> r.trackingId])
               /\ res' = Response("webhook", 200, r.trackingId, NULL)
     /\ \A r \in InFlight :
          (WebhookUpdate(r) /\ lost' = lost)
            => \A i \in Idx(links) :
                 (links[i].tracking_id = r.trackingId /\ links[i].converted)
                   => links'[i].converted /\ links'[i].converted_at = now]_vars

\* a link, converted at an earlier tick, has two Conversion rows and the last
\* webhook, answered 200, has yet to stamp it again
C12_Witness ==
  \E i \in Idx(links) :
    /\ links[i].converted /\ links[i].converted_at < now
    /\ conversions = <<ConversionRow(links[i].contact_id, links[i].tracking_id),
                       ConversionRow(links[i].contact_id, links[i].tracking_id)>>
    /\ res = Response("webhook", 200, links[i].tracking_id, NULL)
    /\ reqs = SetToBag({Request("webhook", links[i].contact_id, links[i].tracking_id, FALSE, TRUE)})
    /\ lost = 0

\* ---------------------------------------------------------------- C13
\* the day, in local time, of a stored time
LocalDay(t) == (t + tzOffset) \div TicksPerDay

\* C13: the recentActivity of a stats request for today lists no Link whose
\* local day of creation is the day before the local day of the query.
C13_TodayExcludesYesterday ==
  [][\A r \in InFlight :
       (StatsRecent(r) /\ r.period = "today" /\ res'.status = 200)
         => \A n \in Idx(res'.recentActivity) :
              LocalDay(res'.recentActivity[n].created_at) # LocalDay(now) - 1]_vars

\* ---------------------------------------------------------------- C14
\* the links a stats request scoped to agentType is about: all of them if it
\* names no type, or the type all
LinksOfAgent(agentType) ==
  {i \in Idx(links) : agentType \in {NULL, "", "all"} \/ links[i].agent_type = agentType}

Min(a, b) == IF a < b THEN a ELSE b

\* this step is the callback of the overview of a stats request, which it
\* leaves in flight as q
Overviewed(q) ==
  /\ reqs = EmptyBag /\ reqs' = SetToBag({q})
  /\ q.kind = "stats" /\ q.next = "byAgent"
  /\ \E p \in PeriodIn, a \in AgentTypeQuery :
       PeriodOf(p) = q.period /\ a = q.agentType /\ GetStats(p, a)

\* C14: when the period given is none of today, week and month, every Link is
\* selected whatever its creation date: the overview counts all the Links of
\* the request's agent type and recentActivity lists them, up to its limit.
C14_OtherPeriodsMatchAll ==
  [][/\ \A q \in BagToSet(reqs') :
          (Overviewed(q) /\ q.period \notin {"today", "week", "month"})
            => q.overview.total = Cardinality(LinksOfAgent(q.agentType))
     /\ \A r \in InFlight :
          (StatsRecent(r) /\ r.period \notin {"today", "week", "month"} /\ res'.status = 200)
            => /\ Len(res'.recentActivity)
                    = Min(RecentLimit, Cardinality(LinksOfAgent(r.agentType)))
               /\ \A n \in Idx(res'.recentActivity) :
                    \E i \in LinksOfAgent(r.agentType) :
                      res'.recentActivity[n].tracking_id = links[i].tracking_id]_vars

\* a request for a period the handler does not know has been answered with
\* a link the filter of today leaves out
C14_Witness ==
  /\ res.kind = "stats" /\ res.status = 200 /\ res.period = "year"
  /\ res.overview.total = Len(links)
  /\ \E n \in Idx(res.recentActivity) :
       DateOf(res.recentActivity[n].created_at) # LocalDateDaysAgo(0)

\* ---------------------------------------------------------------- C15
\* the links of the period, as a request with no agentType selects them
InPeriod(period) == Where(DateFilter(period, NULL))

\* C15: whatever agentType a stats request gives, its byAgent is the one of
\* the request for the same period with no agentType: one group for each
\* agent type with a Link in the period, counting all the Links of that type
\* in the period; its overview counts the Links in the period of the given
\* type alone.
C15_ByAgentOverPeriodAlone ==
  [][/\ \A r \in InFlight :
          (StatsByAgent(r) /\ res'.status # 500)
            => \E q \in BagToSet(reqs') :
                 /\ q.byAgent \in GroupByAgent(InPeriod(r.period))
                 /\ \A a \in StatAgentTypes :
                      LET ofType == {i \in InPeriod(r.period) : links[i].agent_type = a}
                          groups == {n \in Idx(q.byAgent) : q.byAgent[n].agent_type = a}
                      IN /\ Cardinality(groups) = (IF ofType = {} THEN 0 ELSE 1)
                         /\ \A n \in groups :
                              /\ q.byAgent[n].figures.total = Cardinality(ofType)
                              /\ q.byAgent[n].figures.clicks
                                   = Cardinality({i \in ofType : links[i].clicked})
                              /\ q.byAgent[n].figures.conversions
                                   = Cardinality({i \in ofType : links[i].converted})
     /\ \A q \in BagToSet(reqs') :
          Overviewed(q)
            => q.overview.total
                 = Cardinality(InPeriod(q.period) \cap LinksOfAgent(q.agentType))]_vars

\* a request scoped to one agent type holds an overview of that type's links
\* and a byAgent with a group of another type as well
C15_Witness ==
  \E r \in InFlight :
    /\ r.kind = "stats" /\ r.next = "recentActivity"
    /\ r.agentType \in StatAgentTypes
    /\ r.overview.total > 0
    /\ Len(r.byAgent) = 2
    /\ \E n \in Idx(r.byAgent) :
         /\ r.byAgent[n].agent_type = r.agentType
         /\ r.byAgent[n].figures.total = r.overview.total
    /\ \E n \in Idx(r.byAgent) : r.byAgent[n].agent_type # r.agentType

\* ---------------------------------------------------------------- C16
\* recentActivity s is newest first
NewestFirst(s) == \A m, n \in Idx(s) : m < n => s[m].created_at >= s[n].created_at

\* recentActivity s lists the link i
Lists(s, i) == \E n \in Idx(s) : s[n].tracking_id = links[i].tracking_id

\* C16 as stated: recentActivity has at most RecentLimit entries, newest
\* first, and lists every Link of the period when the period has no more
\* than RecentLimit, whatever agentType the request gives.
C16_RecentListsPeriod ==
  [][\A r \in InFlight :
       (StatsRecent(r) /\ res'.status = 200)
         => /\ Len(res'.recentActivity) <= RecentLimit
            /\ NewestFirst(res'.recentActivity)
            /\ Cardinality(InPeriod(r.period)) <= RecentLimit
                 => \A i \in InPeriod(r.period) : Lists(res'.recentActivity, i)]_vars

\* C16: recentActivity lists the most recently created Links of the period
\* that are of the request's agent type (of any type, if the request names
\* none or all): at most RecentLimit of them, newest first, no Link left out
\* being newer than one listed, and all of them when they are no more than
\* RecentLimit.
C16_RecentListsPeriodOfAgent ==
  [][\A r \in InFlight :
       (StatsRecent(r) /\ res'.status = 200)
         => LET scope == InPeriod(r.period) \cap LinksOfAgent(r.agentType)
                recent == res'.recentActivity
            IN /\ Len(recent) = Min(RecentLimit, Cardinality(scope))
               /\ NewestFirst(recent)
               /\ \A n \in Idx(recent) :
                    \E i \in scope : recent[n] = Projection(links[i])
               /\ \A m, n \in Idx(recent) :
                    recent[m].tracking_id = recent[n].tracking_id => m = n
               /\ \A i \in scope :
                    ~Lists(recent, i)
                      => \A n \in Idx(recent) : links[i].created_at <= recent[n].created_at]_vars

\* a request scoped to one agent type has been answered with RecentLimit
\* links of that type, the newer first, leaving out an older one of the type
\* and a link of another type
C16_Witness ==
  /\ res.kind = "stats" /\ res.status = 200
  /\ Len(res.recentActivity) = RecentLimit
  /\ res.recentActivity[1].created_at > res.recentActivity[RecentLimit].created_at
  /\ \E i \in Idx(links) :
       /\ ~Lists(res.recentActivity, i)
       /\ links[i].agent_type # res.recentActivity[1].agent_type
  /\ res.overview.total = RecentLimit
  /\ \A n \in Idx(res.recentActivity) :
       res.recentActivity[n].agent_type = res.recentActivity[1].agent_type

\* ---------------------------------------------------------------- C17
\* the entries of clicks stamped t, and the ClickEvent rows of code stamped t
EntriesAt(clicks, t) == {n \in Idx(clicks) : clicks[n].clicked_at = t}
ClickRowsAt(code, t) == {i \in ClickRowsOf(code) : click_events[i].clicked_at = t}

\* C17: a link request for a code no Link has is answered 404 and changes
\* nothing; one for the code of a Link reads that Link's row and, when its
\* second query has run, is answered 200 with that row and with the
\* ClickEvent rows of the code, each once, none of another code, newest
\* first.
C17_LinkWithItsClicks ==
  [][/\ \A k \in Codes :
          /\ (GetLink(k) /\ k \notin CodesOf(links))
               => res' = LinkResponse(404, <<>>, <<>>) /\ UNCHANGED <<store, reqs>>
          /\ (GetLink(k) /\ res'.status # 404)
               => \E i \in Idx(links) :
                    /\ links[i].tracking_id = k
                    /\ reqs' = reqs (+) SetToBag({[kind |-> "link", trackingId |-> k,
                                                   link |-> links[i]]})
     /\ \A r \in InFlight :
          (LinkClicks(r) /\ lost' = lost)
            => /\ res'.status = 200
               /\ res'.link = r.link /\ r.link.tracking_id = r.trackingId
               /\ Len(res'.clicks) = Cardinality(ClickRowsOf(r.trackingId))
               /\ \A n \in Idx(res'.clicks) : res'.clicks[n].tracking_id = r.trackingId
               /\ \A t \in 0..MaxTime :
                    Cardinality(EntriesAt(res'.clicks, t))
                      = Cardinality(ClickRowsAt(r.trackingId, t))
               /\ \A m, n \in Idx(res'.clicks) :
                    m < n => res'.clicks[m].clicked_at >= res'.clicks[n].clicked_at
               /\ UNCHANGED store]_vars

\* a link request has been answered with the row of a clicked link and its
\* two click events, the later one first
C17_Witness ==
  /\ res.kind = "link" /\ res.status = 200
  /\ res.link.clicked
  /\ Len(res.clicks) = 2
  /\ res.clicks[1].clicked_at > res.clicks[2].clicked_at
  /\ lost = 0

\* ---------------------------------------------------------------- C18
\* C18: the INSERT of a registration whose code is the code of a Link fails:
\* the registration is answered 500 in that step, with no other code tried,
\* and the store is as before; no Link's row is changed and no row is added.
C18_CollisionSurfaces ==
  [][\A c \in ContactIds, a \in AgentTypes, u \in Urls, k \in CodesOf(links) :
       (Idle /\ InsertLink(k, c, a, u) /\ RegisterLink(c, a, u))
         => /\ res' = Response("register", 500, NULL, NULL)
            /\ UNCHANGED <<store, reqs>>]_vars

\* every code is the code of a link, one of them clicked, and a further
\* registration has been answered 500
C18_Witness ==
  /\ CodesOf(links) = Codes
  /\ Len(links) = Cardinality(Codes)
  /\ \E i \in Idx(links) : links[i].clicked
  /\ res = Response("register", 500, NULL, NULL)

\* ---------------------------------------------------------------- C19
\* table s, as it was, is the beginning of table t
Extends(t, s) == Len(s) <= Len(t) /\ SubSeq(t, 1, Len(s)) = s

\* C19: no step removes a row or rewrites one: the Links stay, each with its
\* tracking code, contact, agent type, destination and time of creation, and
\* the ClickEvent and Conversion rows stay as they were written; a step only
\* appends rows and sets a Link's click and conversion flags and stamps.
C19_RowsOnlyAddedOrFlagged ==
  [][/\ Len(links') >= Len(links)
     /\ \A i \in Idx(links) :
          /\ links'[i].tracking_id = links[i].tracking_id
          /\ links'[i].contact_id = links[i].contact_id
          /\ links'[i].agent_type = links[i].agent_type
          /\ links'[i].original_url = links[i].original_url
          /\ links'[i].created_at = links[i].created_at
     /\ Extends(click_events', click_events)
     /\ Extends(conversions', conversions)]_vars

\* a link registered at the first tick has been clicked and converted at the
\* second, after another link was registered, and a second webhook for its
\* contact has been recorded
C19_Witness ==
  /\ Len(links) = 2 /\ Len(conversions) = 2 /\ click_events # <<>>
  /\ conversions[1].contact_id = conversions[2].contact_id
  /\ \E i \in Idx(links) :
       /\ links[i].converted /\ links[i].created_at < links[i].clicked_at
       /\ links[i].clicked_at <= links[i].converted_at
  /\ reqs = EmptyBag

\* ---------------------------------------------------------------- C20
\* C20: a converted Link is a clicked one, in every state, and no step takes
\* back a Link's clicked flag or its converted flag.
C20_ConvertedImpliesClicked ==
  [][/\ \A i \in Idx(links') : links'[i].converted => links'[i].clicked
     /\ \A i \in Idx(links) :
          /\ links[i].clicked => links'[i].clicked
          /\ links[i].converted => links'[i].converted]_vars

\* a link has been visited again after its conversion, next to a link of
\* the same contact that has not been clicked
C20_Witness ==
  \E i, j \in Idx(links) :
    /\ links[i].converted /\ links[i].clicked
    /\ Cardinality(ClickRowsOf(links[i].tracking_id)) = 2
    /\ \E n \in ClickRowsOf(links[i].tracking_id) :
         click_events[n].clicked_at > links[i].converted_at
    /\ links[j].contact_id = links[i].contact_id
    /\ ~links[j].clicked /\ ~links[j].converted
    /\ reqs = EmptyBag

\* ---------------------------------------------------------------- C21
\* the Links a ClickEvent or a Conversion with tracking code code refers to
LinksReferred(code) == {links[j] : j \in LinksWithCode(links, code)}

\* C21: in every state, each ClickEvent's tracking code is the code of a
\* Link in the store, and each Conversion whose tracking code is not null
\* has the code of a Link in the store whose contact is the Conversion's.
C21_ReferentialIntegrity ==
  /\ \A i \in Idx(click_events) : LinksReferred(click_events[i].tracking_id) # {}
  /\ \A n \in Idx(conversions) :
       conversions[n].tracking_id # NULL =>
         \E l \in LinksReferred(conversions[n].tracking_id) :
           l.contact_id = conversions[n].contact_id

\* two links of different contacts, one of them visited and converted, and a
\* webhook for the other contact recorded with a null code
C21_Witness ==
  /\ \E i, j \in Idx(links) : links[i].contact_id # links[j].contact_id
  /\ click_events # <<>>
  /\ \E n, k \in Idx(conversions) :
       /\ conversions[n].tracking_id # NULL
       /\ conversions[k].tracking_id = NULL
       /\ conversions[k].contact_id \in {links[i].contact_id : i \in Idx(links)}
       /\ conversions[k].contact_id # conversions[n].contact_id
  /\ reqs = EmptyBag
====
